---- MODULE Spec2Model ----
(***************************************************************************)
(* Model of video-convert (src/main.rs): the iced application              *)
(* VideoProcessor (a five-state UI state machine), the runtime's message   *)
(* queue, the conversion tasks running _ffmpeg_execute on the executor's   *)
(* thread pool, the ffmpeg availability check, and the part of the file    *)
(* system those touch.                                                     *)
(***************************************************************************)
EXTENDS Naturals, Sequences, FiniteSets

(* ---------------------------------------------------------------------- *)
(* Bounds                                                                  *)
(* ---------------------------------------------------------------------- *)
\* conversions the user may request in one run
MaxTasks == 2
\* window events waiting in the queue (button presses are bounded by MaxTasks)
MaxEvents == 1

(* ---------------------------------------------------------------------- *)
(* Paths.  A path is a directory and a final component; the component is   *)
(* a sequence of characters, so that file_stem really splits it.           *)
(* "\xFF" stands for a byte sequence that is not valid Unicode.            *)
(* ---------------------------------------------------------------------- *)
BadByte == "\\xFF"

Mp4Suffix == <<".", "m", "p", "4">>
GifSuffix == <<".", "g", "i", "f">>

PathOf(d, n) == [dir |-> d, name |-> n]

\* /videos/a.webm
SrcWebm == PathOf("videos", <<"a", ".", "w">>)
\* <cwd>/test/dist/a.mp4 : a source lying in the output directory, with the
\* stem of a.webm
SrcInDist == PathOf("dist", <<"a">> \o Mp4Suffix)
\* a regular file whose name is not valid Unicode
SrcBadName == PathOf("videos", <<BadByte, ".", "w">>)
\* a directory
SomeDirectory == PathOf("videos", <<"d">>)
\* paths with unusual final components, for direct calls of _ffmpeg_execute
RootPath == PathOf("root", <<>>)
DotDotPath == PathOf("videos", <<".", ".">>)
HiddenPath == PathOf("videos", <<".", "b">>)
TwoDotPath == PathOf("videos", <<"a", ".", "b", ".", "c">>)
TrailingDotPath == PathOf("videos", <<"a", ".">>)
NoDotPath == PathOf("videos", <<"a">>)

\* what the user can drop on the window; SrcInDist is a path where nothing
\* exists in the runs that start without ./test/dist/a.mp4
DropPaths == {SrcWebm, SrcInDist, SrcBadName, SomeDirectory}
\* regular files outside ./test/dist that exist when the program starts
VideoFiles == {SrcWebm, SrcBadName}
\* arguments of a direct call of _ffmpeg_execute
CallPaths ==
    DropPaths \cup {RootPath, DotDotPath, HiddenPath, TwoDotPath, TrailingDotPath, NoDotPath}
CallTypes == {"mp4", "gif", "MP4", "webm", ""}
\* the video types of the two buttons of select_target_view
ButtonTypes == {"mp4", "gif"}

NoPath == [none |-> TRUE]
NoUpdate == [message |-> "none", before |-> "none"]


(* ---------------------------------------------------------------------- *)
(* std::path: to_str, file_name, file_stem                                 *)
(* ---------------------------------------------------------------------- *)
\* OsStr::to_str is Some exactly for valid Unicode
IsUnicode(n) == \A i \in 1..Len(n) : n[i] # BadByte

\* Path::file_name: None for the root and for a path ending in ".."
HasFileName(p) == p.name # <<>> /\ p.name # <<".", ".">>

\* index of the last '.' of n at or below i, 0 when there is none (rsplitn(2, '.'))
RECURSIVE LastDot(_, _)
LastDot(n, i) == IF i = 0 THEN 0 ELSE IF n[i] = "." THEN i ELSE LastDot(n, i - 1)

\* Path::file_stem of a path that has a file name: the name up to its last
\* '.', the whole name when it has no '.' or only a leading one
FileStem(p) ==
    LET d == LastDot(p.name, Len(p.name))
    IN  IF d <= 1 THEN p.name ELSE SubSeq(p.name, 1, d - 1)

\* lines 264-267: file_stem().map(to_str().expect(..)).unwrap_or("output")
FilenameWithoutSuffix(p) ==
    IF HasFileName(p) THEN FileStem(p) ELSE <<"o", "u", "t", "p", "u", "t">>

\* lines 269-271 and 280-284: ./test/dist/<stem>.mp4 or ./test/dist/<stem>.gif
DstPathAlwaysGif(src_video, video_type) ==
    PathOf("dist", FilenameWithoutSuffix(src_video) \o GifSuffix)

DstPath(src_video, video_type) ==
    IF video_type = "mp4"
    THEN PathOf("dist", FilenameWithoutSuffix(src_video) \o Mp4Suffix)
    ELSE PathOf("dist", FilenameWithoutSuffix(src_video) \o GifSuffix)

(* ---------------------------------------------------------------------- *)
(* State                                                                   *)
(* ---------------------------------------------------------------------- *)
VARIABLES
    app,       \* "running", "crashed" (update panicked), "none" (no window: a direct call)
    state,     \* the VideoProcessor value
    queue,     \* messages the runtime has received and not yet passed to update
    found,     \* the availability check of new(): "pending" or "delivered"
    tasks,     \* the conversion tasks, in the order they were started
    fs,        \* ./test, ./test/dist and the regular files
    ffmpeg,    \* the installed binary: "ok", "broken" (runs, exits with failure), "absent"
    lastDrop,  \* history: the path of the last accepted FileDropped event
    last       \* history: the last call of update, its kind of message and the state before

vars == <<app, state, queue, found, tasks, fs, ffmpeg, lastDrop, last>>

\* the variants of enum VideoProcessor
SelectFile == [tag |-> "SelectFile"]
SelectTarget(v) == [tag |-> "SelectTarget", video |-> v]
GeneratingFile == [tag |-> "GeneratingFile"]
Complete(p) == [tag |-> "Complete", target_path |-> p]
Error == [tag |-> "Error"]

\* the variants of enum Message; the window events are FileDropped(file) or another one
FileDropped(p) == [type |-> "EventOccurred", event |-> "FileDropped", file |-> p]
OtherEvent == [type |-> "EventOccurred", event |-> "Other"]
Submit(t) == [type |-> "Submit", video_type |-> t]
FfmpegComplete(p) == [type |-> "FfmpegComplete", path |-> p]
FfmpegFound(b) == [type |-> "FfmpegFound", is_exist |-> b]

\* Path::is_file and Path::is_dir on the modelled file system
IsFile(p) ==
    \/ p.dir = "dist" /\ p.name = <<>> /\ fs.dist = "file"
    \/ p.name # <<>> /\ p \in fs.files /\ (p.dir = "dist" => fs.dist = "dir")

DistDir == PathOf("dist", <<>>)

Command_none == [cmd |-> "none"]
Command_perform(src_video, video_type) ==
    [cmd |-> "ffmpeg_execute", src_video |-> src_video, video_type |-> video_type]

(* ---------------------------------------------------------------------- *)
(* VideoProcessor::update.  The result is the new state, the returned      *)
(* Command, and whether the call panicked instead of returning.            *)
(* ---------------------------------------------------------------------- *)
Returns(s, c) == [state |-> s, command |-> c, panic |-> FALSE]
Panics(s) == [state |-> s, command |-> Command_none, panic |-> TRUE]

\* a variant that keeps the first selection when a second file is dropped
update_EventOccurred_keep_first(self, event) ==
    IF event.event # "FileDropped" THEN Returns(self, Command_none)
    ELSE IF ~IsUnicode(event.file.name) THEN Panics(self)
    ELSE IF ~IsFile(event.file) \/ self.tag = "SelectTarget" THEN Returns(self, Command_none)
    ELSE Returns(SelectTarget(event.file), Command_none)

\* lines 83-95
update_EventOccurred(self, event) ==
    IF event.event # "FileDropped" THEN Returns(self, Command_none)
    ELSE IF ~IsUnicode(event.file.name) THEN Panics(self)
    ELSE IF ~IsFile(event.file) THEN Returns(self, Command_none)
    ELSE Returns(SelectTarget(event.file), Command_none)

\* lines 96-107
update_Submit(self, video_type) ==
    IF self.tag = "SelectTarget"
    THEN Returns(GeneratingFile, Command_perform(self.video, video_type))
    ELSE Panics(self)

\* a variant that returns to the first screen when a conversion has finished
update_FfmpegComplete_start_over(self, p) == Returns(SelectFile, Command_none)

\* lines 108-112
update_FfmpegComplete(self, p) == Returns(Complete(p), Command_none)

\* a variant that reports an error only before a file was selected
update_FfmpegFound_early_only(self, is_exist) ==
    IF ~is_exist /\ self.tag = "SelectFile"
    THEN Returns(Error, Command_none)
    ELSE Returns(self, Command_none)

\* lines 113-118
update_FfmpegFound(self, is_exist) ==
    IF ~is_exist THEN Returns(Error, Command_none) ELSE Returns(self, Command_none)

\* lines 82-119: the match on the message
update_match(self, message) ==
    CASE message.type = "EventOccurred" -> update_EventOccurred(self, message)
      [] message.type = "Submit" -> update_Submit(self, message.video_type)
      [] message.type = "FfmpegComplete" -> update_FfmpegComplete(self, message.path)
      [] message.type = "FfmpegFound" -> update_FfmpegFound(self, message.is_exist)

\* a variant without the early return of lines 78-80
update_without_error_guard(self, message) == update_match(self, message)

\* lines 77-120
update(self, message) ==
    IF self.tag = "Error" THEN Returns(self, Command_none) ELSE update_match(self, message)

(* ---------------------------------------------------------------------- *)
(* The runtime: new(), the event subscription, the buttons, update         *)
(* ---------------------------------------------------------------------- *)
\* a conversion task at the entry of _ffmpeg_execute
NewTask(src_video, video_type) ==
    [src_video |-> src_video, video_type |-> video_type, pc |-> "check_dir",
     dst_path |-> NoPath, status |-> "none"]

EventPending == Cardinality({i \in 1..Len(queue) : queue[i].type = "EventOccurred"})
SubmitPending == Cardinality({i \in 1..Len(queue) : queue[i].type = "Submit"})

\* the states ./test and ./test/dist can start in, with the regular files
InitFs ==
    {[test |-> "missing", dist |-> "missing", files |-> VideoFiles],
     [test |-> "dir", dist |-> "missing", files |-> VideoFiles],
     [test |-> "dir", dist |-> "file", files |-> VideoFiles]}
    \cup {[test |-> "dir", dist |-> "dir", files |-> VideoFiles \cup S] :
            S \in SUBSET {SrcInDist}}

\* lines 66-71: new() returns SelectFile and the command performing ffmpeg_found()
Init ==
    /\ app = "running"
    /\ state = SelectFile
    /\ queue = <<>>
    /\ found = "pending"
    /\ tasks = <<>>
    /\ fs \in InitFs
    /\ ffmpeg \in {"ok", "broken", "absent"}
    /\ lastDrop = NoPath
    /\ last = NoUpdate

\* lines 335-339: output.is_ok() && output.unwrap().status.success()
ffmpeg_found_spawn_only == ffmpeg # "absent"

ffmpeg_found == ffmpeg # "absent" /\ ffmpeg = "ok"

\* lines 69, 346-348: the availability check finishes and its message is queued
FoundTask ==
    /\ app = "running"
    /\ found = "pending"
    /\ found' = "delivered"
    /\ queue' = Append(queue, FfmpegFound(ffmpeg_found))
    /\ UNCHANGED <<app, state, tasks, fs, ffmpeg, lastDrop, last>>

\* lines 122-124: a window event reaches the subscription
DropFile(p) ==
    /\ app = "running"
    /\ EventPending < MaxEvents
    /\ queue' = Append(queue, FileDropped(p))
    /\ UNCHANGED <<app, state, found, tasks, fs, ffmpeg, lastDrop, last>>

WindowEvent ==
    /\ app = "running"
    /\ EventPending < MaxEvents
    /\ queue' = Append(queue, OtherEvent)
    /\ UNCHANGED <<app, state, found, tasks, fs, ffmpeg, lastDrop, last>>

\* lines 126-134, 166-180: the buttons exist in the view of SelectTarget only
PressButton(t) ==
    /\ app = "running"
    /\ state.tag = "SelectTarget"
    /\ Len(tasks) + SubmitPending < MaxTasks
    /\ queue' = Append(queue, Submit(t))
    /\ UNCHANGED <<app, state, found, tasks, fs, ffmpeg, lastDrop, last>>

\* a FileDropped event that update accepts: a regular file, outside Error
Accepted(m) ==
    /\ m.type = "EventOccurred" /\ m.event = "FileDropped"
    /\ state.tag # "Error"
    /\ IsUnicode(m.file.name)
    /\ IsFile(m.file)

\* the runtime passes the oldest message to update and spawns the command
Update ==
    /\ app = "running"
    /\ queue # <<>>
    /\ LET r == update(state, Head(queue))
       IN  /\ queue' = Tail(queue)
           /\ app' = IF r.panic THEN "crashed" ELSE app
           /\ state' = r.state
           /\ tasks' = IF r.command.cmd = "ffmpeg_execute"
                       THEN Append(tasks, NewTask(r.command.src_video, r.command.video_type))
                       ELSE tasks
           /\ lastDrop' = IF Accepted(Head(queue)) THEN Head(queue).file ELSE lastDrop
           /\ last' = [message |-> Head(queue).type, before |-> state.tag]
    /\ UNCHANGED <<found, fs, ffmpeg>>

(* ---------------------------------------------------------------------- *)
(* _ffmpeg_execute, one step per file-system or process operation; the     *)
(* tasks run on the executor's threads, so their steps interleave.         *)
(* ---------------------------------------------------------------------- *)
Goto(i, l) == tasks' = [tasks EXCEPT ![i].pc = l]
GotoWithDst(i, l) ==
    tasks' = [tasks EXCEPT ![i].pc = l,
                           ![i].dst_path = DstPath(tasks[i].src_video, tasks[i].video_type)]
At(i, l) == app # "crashed" /\ i \in 1..Len(tasks) /\ tasks[i].pc = l

\* lines 262-277, and lines 280-284 when the directory exists:
\* src_video.to_str().unwrap(), the stem, dir.is_file(), dir.is_dir()
CheckDir(i) ==
    /\ At(i, "check_dir")
    /\ IF ~IsUnicode(tasks[i].src_video.name) \/ IsFile(DistDir)
       THEN Goto(i, "panicked")
       ELSE IF fs.dist = "dir" THEN GotoWithDst(i, "dst_is_file") ELSE Goto(i, "create_dir")
    /\ UNCHANGED <<app, state, queue, found, fs, ffmpeg, lastDrop, last>>

\* line 278, then lines 280-284: create_dir makes one level and fails on an
\* existing entry
CreateDir(i) ==
    /\ At(i, "create_dir")
    /\ IF fs.test = "dir" /\ fs.dist = "missing"
       THEN /\ fs' = [fs EXCEPT !.dist = "dir"]
            /\ GotoWithDst(i, "dst_is_file")
       ELSE /\ fs' = fs
            /\ Goto(i, "panicked")
    /\ UNCHANGED <<app, state, queue, found, ffmpeg, lastDrop, last>>

\* line 287
DstIsFile(i) ==
    /\ At(i, "dst_is_file")
    /\ IF IsFile(tasks[i].dst_path) THEN Goto(i, "remove_file") ELSE Goto(i, "spawn")
    /\ UNCHANGED <<app, state, queue, found, fs, ffmpeg, lastDrop, last>>

\* line 288
RemoveFile(i) ==
    /\ At(i, "remove_file")
    /\ IF IsFile(tasks[i].dst_path)
       THEN /\ fs' = [fs EXCEPT !.files = @ \ {tasks[i].dst_path}]
            /\ Goto(i, "spawn")
       ELSE /\ fs' = fs
            /\ Goto(i, "panicked")
    /\ UNCHANGED <<app, state, queue, found, ffmpeg, lastDrop, last>>

\* the ffmpeg process: it can succeed only when it works, its input is a
\* regular file and its output does not exist (stdin is null, so it never
\* overwrites); on success the output file exists
CanConvert(i) ==
    /\ ffmpeg = "ok"
    /\ IsFile(tasks[i].src_video)
    /\ ~IsFile(tasks[i].dst_path)

\* lines 291-315 and 104-106: command.output() spawns ffmpeg and waits for
\* it, the output is decoded and dst_path returned; the runtime turns the
\* returned path into a FfmpegComplete message
RunFfmpeg(i) ==
    /\ At(i, "spawn")
    /\ IF ffmpeg = "absent"
       THEN Goto(i, "panicked") /\ UNCHANGED <<fs, queue>>
       ELSE \E success \in {FALSE, CanConvert(i)}, text \in BOOLEAN :
              /\ tasks' = [tasks EXCEPT ![i].pc = IF text THEN "done" ELSE "panicked",
                                        ![i].status = IF success THEN "success" ELSE "failure"]
              /\ fs' = IF success
                       THEN [fs EXCEPT !.files = @ \cup {tasks[i].dst_path}]
                       ELSE fs
              /\ queue' = IF text /\ app = "running"
                          THEN Append(queue, FfmpegComplete(tasks[i].dst_path))
                          ELSE queue
    /\ UNCHANGED <<app, state, found, ffmpeg, lastDrop, last>>

Next ==
    \/ FoundTask
    \/ \E p \in DropPaths : DropFile(p)
    \/ WindowEvent
    \/ \E t \in ButtonTypes : PressButton(t)
    \/ Update
    \/ \E i \in 1..MaxTasks : CheckDir(i)
    \/ \E i \in 1..MaxTasks : CreateDir(i)
    \/ \E i \in 1..MaxTasks : DstIsFile(i)
    \/ \E i \in 1..MaxTasks : RemoveFile(i)
    \/ \E i \in 1..MaxTasks : RunFfmpeg(i)

Spec == Init /\ [][Next]_vars

\* the runtime and the executor run every enabled step eventually; the user
\* and the window system are under no obligation
TaskStep(i) == CheckDir(i) \/ CreateDir(i) \/ DstIsFile(i) \/ RemoveFile(i) \/ RunFfmpeg(i)

FairSpec ==
    /\ Spec
    /\ WF_vars(Update)
    /\ WF_vars(FoundTask)
    /\ \A i \in 1..MaxTasks : WF_vars(TaskStep(i))

\* lines 318-324: _ffmpeg_execute called directly, as test_ffmpeg_execute does,
\* with no window and no runtime
CallFiles == VideoFiles \cup {HiddenPath, TwoDotPath, TrailingDotPath, NoDotPath}

InitCall ==
    /\ app = "none"
    /\ state = SelectFile
    /\ queue = <<>>
    /\ found = "delivered"
    /\ \E p \in CallPaths, t \in CallTypes : tasks = <<NewTask(p, t)>>
    /\ \E f \in InitFs : fs = [f EXCEPT !.files = @ \cup CallFiles]
    /\ ffmpeg \in {"ok", "broken", "absent"}
    /\ lastDrop = NoPath
    /\ last = NoUpdate

SpecCall == (Init \/ InitCall) /\ [][Next]_vars

(* ---------------------------------------------------------------------- *)
(* Properties                                                              *)
(* ---------------------------------------------------------------------- *)
\* a step of the runtime that calls update: only update takes a message off the queue
IsUpdate == Len(queue') < Len(queue)

\* conversion tasks started by Submit whose FfmpegComplete has not been processed
Running == {i \in 1..Len(tasks) : tasks[i].pc \notin {"done", "panicked"}}
Completing == {i \in 1..Len(queue) : queue[i].type = "FfmpegComplete"}
InFlight == Cardinality(Running) + Cardinality(Completing)

\* C1: whenever update changes the state to Complete, the state before that
\* update was GeneratingFile.
C1_CompleteOnlyFromGenerating ==
    [][(state'.tag = "Complete" /\ state' # state) => state.tag = "GeneratingFile"]_vars

\* C2: in every reachable state at most one conversion task is in flight.
C2_AtMostOneInFlight == InFlight <= 1

\* C3: the state Complete is reached only for a conversion whose ffmpeg
\* process exited successfully: when Complete shows a path, some finished
\* conversion to that path succeeded.
C3_CompleteOnlyOnSuccess ==
    state.tag = "Complete" =>
        \E i \in 1..Len(tasks) :
            /\ tasks[i].pc = "done"
            /\ tasks[i].dst_path = state.target_path
            /\ tasks[i].status = "success"

\* C4: under weak fairness of the runtime and the tasks, whenever the state
\* is GeneratingFile it eventually becomes Complete or Error (a run that a
\* panic of update has ended is not held against the statement).
C4_GeneratingEnds ==
    (state.tag = "GeneratingFile") ~>
        (state.tag \in {"Complete", "Error"} \/ app = "crashed")

\* st is the final component n of p without its last extension: n up to its
\* last '.', unless that '.' is the first character or there is none; "output"
\* when p has no file name
Output == <<"o", "u", "t", "p", "u", "t">>

IsStemOf(st, p) ==
    IF ~HasFileName(p) THEN st = Output
    ELSE LET n == p.name
         IN  \/ \E k \in 2..Len(n) :
                  /\ n[k] = "."
                  /\ \A j \in (k + 1)..Len(n) : n[j] # "."
                  /\ st = SubSeq(n, 1, k - 1)
             \/ /\ \A k \in 2..Len(n) : n[k] # "."
                /\ st = n

IsDestinationOf(d, src_video, video_type) ==
    LET n == d.name
        suffix == IF video_type = "mp4" THEN Mp4Suffix ELSE GifSuffix
    IN  /\ d.dir = "dist"
        /\ Len(n) >= Len(suffix)
        /\ SubSeq(n, Len(n) - Len(suffix) + 1, Len(n)) = suffix
        /\ IsStemOf(SubSeq(n, 1, Len(n) - Len(suffix)), src_video)

\* the paths of the tasks, of the queued FfmpegComplete messages and of Complete
C5_Paths ==
    /\ \A i \in 1..Len(tasks) :
         tasks[i].pc \in {"dst_is_file", "remove_file", "spawn", "done"} =>
             IsDestinationOf(tasks[i].dst_path, tasks[i].src_video, tasks[i].video_type)
    /\ \A k \in 1..Len(queue) :
         queue[k].type = "FfmpegComplete" =>
             \E i \in 1..Len(tasks) :
                 tasks[i].pc = "done" /\ tasks[i].dst_path = queue[k].path
    /\ state.tag = "Complete" =>
         \E i \in 1..Len(tasks) :
             tasks[i].pc = "done" /\ tasks[i].dst_path = state.target_path

\* the step in which task i's ffmpeg process writes its output file
WritesOutput(i) ==
    /\ tasks[i].pc = "spawn"
    /\ tasks'[i].status = "success"

\* C5: the destination of every conversion is ./test/dist/<stem>.mp4 for the
\* video type "mp4" and ./test/dist/<stem>.gif for every other type, the file
\* ffmpeg writes is at that path, every FfmpegComplete carries the path a
\* finished task returned, and the target_path of Complete is such a path.
C5_Destination ==
    /\ [](C5_Paths)
    /\ [][\A i \in 1..Len(tasks) :
            WritesOutput(i) =>
                /\ tasks'[i].dst_path \in fs'.files
                /\ fs'.files \ fs.files \subseteq {tasks'[i].dst_path}
                /\ IsDestinationOf(tasks'[i].dst_path, tasks[i].src_video,
                                   tasks[i].video_type)]_vars

\* a direct call with a source that has no file name and a type that is
\* neither "mp4" nor "gif" has returned ./test/dist/output.gif
C5_Witness ==
    \E i \in 1..Len(tasks) :
        /\ tasks[i].pc = "done"
        /\ tasks[i].src_video = RootPath
        /\ tasks[i].video_type = "MP4"
        /\ tasks[i].dst_path = PathOf("dist", Output \o GifSuffix)

\* C6: when a task spawns the ffmpeg process, no regular file exists at its
\* destination path.
C6_NoFileAtSpawn ==
    [][\A i \in 1..Len(tasks) :
          (tasks[i].pc = "spawn" /\ tasks'[i].pc # "spawn" /\ ffmpeg # "absent")
              => ~IsFile(tasks[i].dst_path)]_vars

\* C7: once the state is Error, every step leaves it Error, starts no
\* conversion and does not panic.
C7_ErrorAbsorbing ==
    [][state.tag = "Error" =>
          (state' = state /\ Len(tasks') = Len(tasks) /\ app' = app)]_vars

\* update has handled a Submit in the state Error and the application runs on
C7_Witness ==
    /\ state.tag = "Error"
    /\ app = "running"
    /\ last = [message |-> "Submit", before |-> "Error"]

\* C8: the state becomes Error exactly when update handles FfmpegFound(false)
\* outside Error, FfmpegFound(true) leaves the state unchanged, and the
\* message carries true iff `ffmpeg -version` was spawned and exited
\* successfully.
C8_ErrorIffNotFound ==
    /\ [][/\ (state.tag # "Error" /\ state'.tag = "Error")
               <=> (IsUpdate /\ state.tag # "Error" /\ Head(queue) = FfmpegFound(FALSE))
          /\ (IsUpdate /\ Head(queue) = FfmpegFound(TRUE)) => state' = state]_vars
    /\ [](\A k \in 1..Len(queue) :
            queue[k].type = "FfmpegFound" =>
                (queue[k].is_exist <=> (ffmpeg # "absent" /\ ffmpeg # "broken")))

\* FfmpegFound(false) arrived after a conversion had completed and moved the
\* state from Complete to Error
C8_Witness ==
    /\ state.tag = "Error"
    /\ last = [message |-> "FfmpegFound", before |-> "Complete"]

\* C9: outside Error, a FileDropped event of a regular file sets the state to
\* SelectTarget with that file and starts no conversion; any other event, and
\* a dropped path that is not a regular file, leaves the state unchanged and
\* starts no conversion.
C9_FileDrop ==
    [][(IsUpdate /\ state.tag # "Error" /\ Head(queue).type = "EventOccurred") =>
          /\ Len(tasks') = Len(tasks)
          /\ IF Head(queue).event = "FileDropped" /\ IsFile(Head(queue).file)
             THEN state' = SelectTarget(Head(queue).file)
             ELSE state' = state]_vars

\* C10: a Submit(t) handled in SelectTarget moves the state to GeneratingFile
\* and starts exactly one conversion task, of the last accepted dropped file
\* and of type t.
C10_SubmitConvertsLastDrop ==
    [][(IsUpdate /\ state.tag = "SelectTarget" /\ Head(queue).type = "Submit") =>
          /\ state' = GeneratingFile
          /\ Len(tasks') = Len(tasks) + 1
          /\ SubSeq(tasks', 1, Len(tasks)) = tasks
          /\ tasks'[Len(tasks')] = NewTask(lastDrop, Head(queue).video_type)]_vars

\* a second conversion was started for a file dropped after the first one
C10_Witness ==
    /\ Len(tasks) = 2
    /\ tasks[1].src_video = SrcWebm
    /\ tasks[2].src_video = SrcInDist
    /\ tasks[2].video_type = "gif"
    /\ last = [message |-> "Submit", before |-> "SelectTarget"]
    /\ state = GeneratingFile

\* availability checks whose result update has not handled yet
ChecksInFlight ==
    (IF found = "pending" THEN 1 ELSE 0)
        + Cardinality({k \in 1..Len(queue) : queue[k].type = "FfmpegFound"})

\* C11: the application starts in SelectFile with exactly one availability
\* check in flight; the state leaves SelectFile only when update handles a
\* dropped regular file (to SelectTarget with it) or FfmpegFound(false) (to
\* Error); no step from another state leads to SelectFile.
C11_SelectFileOnlyInitial ==
    /\ (state = SelectFile /\ ChecksInFlight = 1 /\ tasks = <<>>)
    /\ [](ChecksInFlight <= 1)
    /\ [][/\ (state = SelectFile /\ state' # state) =>
               /\ IsUpdate
               /\ \/ Accepted(Head(queue)) /\ state' = SelectTarget(Head(queue).file)
                  \/ Head(queue) = FfmpegFound(FALSE) /\ state' = Error
          /\ state # SelectFile => state' # SelectFile]_vars

\* a conversion has completed after the state left SelectFile by a file drop
C11_Witness ==
    /\ state.tag = "Complete"
    /\ lastDrop # NoPath
    /\ last.message = "FfmpegComplete"
    /\ found = "delivered"

\* task i takes a step of _ffmpeg_execute from the label l
StepsFrom(i, l) == tasks[i].pc = l /\ tasks'[i].pc # l

\* C12: a task that finds ./test/dist a regular file panics without touching
\* the file system; one that finds it missing creates it when ./test is a
\* directory and panics otherwise; an existing directory is left as it is;
\* ffmpeg is spawned only while ./test/dist is a directory.
C12_OutputDirectory ==
    [][\A i \in 1..Len(tasks) :
          /\ (StepsFrom(i, "check_dir") /\ fs.dist = "file") =>
                 (tasks'[i].pc = "panicked" /\ fs' = fs)
          /\ (StepsFrom(i, "check_dir") /\ fs.dist = "dir") => fs' = fs
          /\ StepsFrom(i, "create_dir") =>
                 IF fs.test = "dir"
                 THEN tasks'[i].pc = "dst_is_file" /\ fs'.dist = "dir"
                 ELSE tasks'[i].pc = "panicked" /\ fs' = fs
          /\ (StepsFrom(i, "spawn") /\ ffmpeg # "absent") => fs.dist = "dir"]_vars

\* C13: update handles a Submit message only in the states SelectTarget and
\* Error, so it never panics with "Wrong application state.".
C13_SubmitOnlyInSelectTarget ==
    [][(IsUpdate /\ Head(queue).type = "Submit") =>
          state.tag \in {"SelectTarget", "Error"}]_vars

\* C14: when the availability check yields false, no conversion task is ever
\* started.
C14_NoConversionWithoutFfmpeg == ~ffmpeg_found => tasks = <<>>

\* C15: the remove-existing-output step of a conversion never deletes the
\* conversion's source file.
C15_SourceSurvives ==
    [][\A i \in 1..Len(tasks) :
          (StepsFrom(i, "remove_file") /\ IsFile(tasks[i].src_video))
              => tasks[i].src_video \in fs'.files]_vars

\* C16: in Complete, target_path is the destination of the most recently
\* handled Submit, and a FfmpegComplete handled in SelectTarget leaves the
\* state and its selected video unchanged.
C16_LatestConversionShown ==
    /\ [](state.tag = "Complete" =>
            /\ tasks # <<>>
            /\ state.target_path = DstPath(tasks[Len(tasks)].src_video,
                                           tasks[Len(tasks)].video_type))
    /\ [][(IsUpdate /\ Head(queue).type = "FfmpegComplete"
              /\ state.tag = "SelectTarget") => state' = state]_vars

\* C17: no two conversion tasks that are running at the same time have the
\* same destination path.
C17_DistinctDestinations ==
    \A i, j \in Running :
        i # j => DstPath(tasks[i].src_video, tasks[i].video_type)
                     # DstPath(tasks[j].src_video, tasks[j].video_type)

====
